---- MODULE Spec2Model ----
(***************************************************************************)
(* A model of the directory-scanning / stability-detection / job-dispatch  *)
(* subsystem of txrm-monitor.py: the classes FileMonitorState and          *)
(* FileMonitor.                                                            *)
(*                                                                         *)
(* Granularity.  A `with self.lock:` block is one atomic step.  Outside    *)
(* the lock every statement that reads or writes a shared FileMonitorState *)
(* field is a step of its own, so the steps of a scan, a tick, a           *)
(* process_file_now call and the job threads interleave freely (Spec).     *)
(* SpecQt is the schedule of the shipped application: scan, tick and       *)
(* process_file_now are Qt callbacks of one event loop and run to          *)
(* completion one after the other, only the job threads run beside them.   *)
(*                                                                         *)
(* Abstractions.  The text of the countdown in "Waiting for changes (Ns)"  *)
(* is dropped from the status; log lines and GUI signals are not state.    *)
(* The clock is observed at the instants of TimePoints only.  A step that  *)
(* touches nothing another thread can see (reading the metadata, adding to *)
(* found_files, starting the thread object) is taken together with the     *)
(* next step of its thread that does.                                      *)
(***************************************************************************)
EXTENDS Integers, Sequences, FiniteSets, TLC

(* ------------------------------ bounds --------------------------------- *)
MaxPeriods == 1      \* the clock is read up to MaxPeriods stability durations
MaxSize == 2         \* a scan file is 1..MaxSize bytes long
MaxCalls == 3        \* calls of the FileMonitor API in one run, made concurrently
MaxQtCalls == 5      \* calls of the FileMonitor API in one run, made one after the other
MaxFsEvents == 2     \* changes made to the scan files from outside in one run

(* --------------------------- program constants ------------------------- *)
STABILITY_DURATION == 10 * 60

(* ---------------------------- the file system -------------------------- *)
\* The monitored tree:  d/dA/{a.txrm, notes.dat}   d/dB/{b.txrm} ;
\* "missing" is a configured directory that is not on disk.
Paths == {"d/dA/a.txrm", "d/dB/b.txrm"}
\* the scan file the instrument is writing; the other one is left alone
Active == {"d/dA/a.txrm"}
Sizes == 1..MaxSize
DirFiles(root) ==
    IF root = "d/dA" THEN <<"d/dA/a.txrm", "d/dA/notes.dat">>
    ELSE IF root = "d/dB" THEN <<"d/dB/b.txrm">>
    ELSE <<>>
DirLists == { <<"d">>, <<"d/dA", "missing", "d/dB">> }
TimePoints == { t \in { k * STABILITY_DURATION + j : k \in 0..MaxPeriods, j \in {0, 1} } : t >= 0 }

\* the first line of the two files a job writes
ReportHeader == "Metadata extracted from: filepath"
ErrorHeader == "ERROR PROCESSING METADATA"

NoError == "None"
Waiting == "Waiting for changes"
PendingStatus == {Waiting}
ProcessingStatus == {"Processing", "Processing (forced)"}
TerminalStatus == {"Completed", "Error"}

VARIABLES
    now,              \* time.time()
    exists,           \* exists[p]: the .txrm file p is on disk
    fsize,            \* fsize[p]: its byte length
    sidecar,          \* sidecar[p]: "none", or the first line of p + '.txt'
    directories,      \* FileMonitor.directories
    heap,             \* the FileMonitorState objects ever constructed
    monitored_files,  \* FileMonitor.monitored_files, in insertion order
    scan,             \* the running scan_directories call
    fsEvents,         \* number of changes made to the scan files from outside
    tick,             \* the running check_stability_and_process call
    manual,           \* the running process_file_now call
    view,             \* the running get_monitored_files call and what the last one returned
    jobs,             \* the _process_file threads that are running
    calls             \* number of calls of the FileMonitor API so far

vars == <<now, exists, fsize, sidecar, fsEvents, directories, heap, monitored_files,
          scan, tick, manual, view, jobs, calls>>

fsVars == <<exists, fsize, sidecar, fsEvents>>

(* ------------------------------ helpers -------------------------------- *)
Range(s) == { s[i] : i \in DOMAIN s }
Keys(mf) == { mf[i].fp : i \in DOMAIN mf }
Get(mf, fp) == (CHOOSE i \in DOMAIN mf : mf[i].fp = fp)
StateOf(mf, fp) == mf[Get(mf, fp)].st

EndsWithTxrm(f) == f \in Paths
FileExists(f) == IF f \in Paths THEN exists[f] ELSE TRUE
IsDir(d) == d \in {"d", "d/dA", "d/dB"}

\* os.walk(directory): the roots it visits, top down
WalkRoots(d) ==
    IF d = "d" THEN <<"d/dA", "d/dB">>
    ELSE IF d \in {"d/dA", "d/dB"} THEN <<d>>
    ELSE <<>>

\* the `files` of one os.walk root that pass filename.endswith('.txrm')
Listing(root) == SelectSeq(DirFiles(root), LAMBDA f : FileExists(f) /\ EndsWithTxrm(f))

\* mutant: the loop over the directories ends at the first one that is missing
RECURSIVE RootsOf_StopAtMissing(_, _)
RootsOf_StopAtMissing(ds, i) ==
    IF i > Len(ds) \/ ~IsDir(ds[i]) THEN <<>>
    ELSE [ k \in 1..Len(WalkRoots(ds[i])) |-> [d |-> i, root |-> WalkRoots(ds[i])[k]] ]
         \o RootsOf_StopAtMissing(ds, i + 1)

\* the os.walk roots of the directories ds[i], ds[i+1], ...: `continue` at a
\* directory that is not on disk
RECURSIVE RootsOf(_, _)
RootsOf(ds, i) ==
    IF i > Len(ds) THEN <<>>
    ELSE (IF IsDir(ds[i])
          THEN [ k \in 1..Len(WalkRoots(ds[i])) |-> [d |-> i, root |-> WalkRoots(ds[i])[k]] ]
          ELSE <<>>) \o RootsOf(ds, i + 1)

(* --------------------------- FileMonitorState -------------------------- *)
NewState(fp) ==
    [ filepath |-> fp, size |-> fsize[fp], last_size_change |-> now, status |-> Waiting,
      is_processing |-> FALSE, is_completed |-> FALSE, error |-> NoError,
      threads |-> 0 ]      \* history: the job threads started with this object

\* mutant: `>` for `>=`
is_stable_Strict(st) == (now - st.last_size_change) > STABILITY_DURATION

is_stable(st) == (now - st.last_size_change) >= STABILITY_DURATION

time_until_stable(st) ==
    LET remaining == STABILITY_DURATION - (now - st.last_size_change)
    IN  IF remaining > 0 THEN remaining ELSE 0

\* mutant: the new size is stored, the clock is not reset
update_size_NoReset(st) ==
    IF ~exists[st.filepath] THEN <<st, FALSE>>
    ELSE IF fsize[st.filepath] # st.size
         THEN <<[st EXCEPT !.size = fsize[st.filepath]], TRUE>>
         ELSE <<st, FALSE>>

\* mutant: the clock is reset by every size read that succeeds
update_size_Touch(st) ==
    IF ~exists[st.filepath] THEN <<st, FALSE>>
    ELSE <<[st EXCEPT !.size = fsize[st.filepath], !.last_size_change = now],
           fsize[st.filepath] # st.size>>

\* update_size: <<the state after the call, the value returned>>
update_size(st) ==
    IF ~exists[st.filepath] THEN <<st, FALSE>>
    ELSE IF fsize[st.filepath] # st.size
         THEN <<[st EXCEPT !.size = fsize[st.filepath], !.last_size_change = now], TRUE>>
         ELSE <<st, FALSE>>

(* -------------------------------- Init --------------------------------- *)
\* clean: nothing on disk changed since the scan began (history, for the claims)
IdleScan == [pc |-> "idle", roots |-> <<>>, files |-> <<>>, found |-> {}, clean |-> TRUE]
IdleTick == [pc |-> "idle", todo |-> <<>>]
IdleManual == [pc |-> "idle", fp |-> "", st |-> 0]
IdleView == [pc |-> "idle", todo |-> <<>>, status |-> "", out |-> <<>>]

\* the application has loaded its configuration; the first scan is still to come
InitWith(ds, present) ==
    /\ now = 0
    /\ exists = [p \in Paths |-> p \in present]
    /\ fsize = [p \in Paths |-> 1]
    /\ sidecar = [p \in Paths |-> "none"]
    /\ fsEvents = 0
    /\ directories = ds
    /\ heap = <<>>
    /\ monitored_files = <<>>
    /\ scan = IdleScan
    /\ tick = IdleTick
    /\ manual = IdleManual
    /\ view = IdleView
    /\ jobs = <<>>
    /\ calls = 0

(* ----------------------------- environment ----------------------------- *)
\* the wall clock moves on
AdvanceClock ==
    /\ \E t \in TimePoints : t > now /\ now' = t
    /\ UNCHANGED <<calls, fsVars, directories, view, heap, monitored_files, scan, tick, manual, jobs>>

\* a running scan has seen the disk change
Unclean == [scan EXCEPT !.clean = (scan.pc = "idle")]

FsEvent ==
    /\ fsEvents < MaxFsEvents
    /\ fsEvents' = fsEvents + 1
    /\ scan' = Unclean
    /\ UNCHANGED <<calls, now, directories, view, heap, monitored_files, tick, manual, jobs>>

\* the instrument writes to a scan file: its length changes
FsWrite(p) ==
    /\ exists[p]
    /\ \E s \in Sizes : s # fsize[p] /\ fsize' = [fsize EXCEPT ![p] = s]
    /\ UNCHANGED <<exists, sidecar>>
    /\ FsEvent

\* a scan file is deleted or moved away
FsDelete(p) ==
    /\ exists[p]
    /\ exists' = [exists EXCEPT ![p] = FALSE]
    /\ fsize' = [fsize EXCEPT ![p] = 1]      \* no length to read any more
    /\ UNCHANGED sidecar
    /\ FsEvent

\* a scan file appears
FsCreate(p) ==
    /\ ~exists[p]
    /\ exists' = [exists EXCEPT ![p] = TRUE]
    /\ \E s \in Sizes : fsize' = [fsize EXCEPT ![p] = s]
    /\ UNCHANGED sidecar
    /\ FsEvent

(* ---------------------- FileMonitor.set_directories -------------------- *)
set_directories(ds) ==
    /\ directories' = ds
    /\ UNCHANGED <<now, fsVars, view, heap, monitored_files, scan, tick, manual, jobs>>

\* remove_directory, until the list is empty
RemoveDirectories == directories # <<>> /\ set_directories(<<>>)

(* --------------------- FileMonitor.scan_directories -------------------- *)
\* where the scan goes on after the file at the head of scan.files
ScanAfter(roots, files) ==
    IF files # <<>> THEN "file" ELSE IF roots # <<>> THEN "walk" ELSE "remove"

\* `if not self.directories: return`; else the loop over the directories begins
ScanStart ==
    /\ scan.pc = "idle"
    /\ IF directories = <<>>
       THEN scan' = IdleScan
       ELSE LET roots == RootsOf(directories, 1)
            IN  scan' = [pc |-> ScanAfter(roots, <<>>), roots |-> roots, files |-> <<>>,
                         found |-> {}, clean |-> TRUE]
    /\ UNCHANGED <<now, fsVars, directories, view, heap, monitored_files, tick, manual, jobs>>

\* os.walk yields the next root and its files
ScanWalk ==
    /\ scan.pc = "walk"
    /\ LET files == Listing(Head(scan.roots).root)
           roots == IF files = <<>> THEN Tail(scan.roots) ELSE scan.roots
       IN  scan' = [scan EXCEPT !.files = files, !.roots = roots,
                                !.pc = ScanAfter(roots, files)]
    /\ UNCHANGED <<calls, now, fsVars, directories, view, heap, monitored_files, tick,
                   manual, jobs>>

\* roots and files once the file at the head of files is dealt with
FileDoneRoots == IF Len(scan.files) = 1 THEN Tail(scan.roots) ELSE scan.roots
ScanFileDone(found) ==
    [scan EXCEPT !.files = Tail(@), !.roots = FileDoneRoots, !.found = found,
                 !.pc = ScanAfter(FileDoneRoots, Tail(scan.files))]

\* the roots left when an exception ends the walk of the current directory
AbortedRoots == SelectSeq(scan.roots, LAMBDA r : r.d # Head(scan.roots).d)
ScanAborted(found) ==
    [scan EXCEPT !.files = <<>>, !.roots = AbortedRoots, !.found = found,
                 !.pc = ScanAfter(AbortedRoots, <<>>)]

\* mutant: an entry is constructed for every file found
ScanIsNew_Always(fp) == TRUE

\* should the scan construct an entry for fp?
ScanIsNew(fp) == fp \notin Keys(monitored_files)

\* One file of the walk: `if os.path.exists(txt_path): continue`, else
\* found_files.add(txrm_path) and, under the lock,
\* `if txrm_path not in self.monitored_files: ... = FileMonitorState(txrm_path)`
ScanFile ==
    /\ scan.pc = "file"
    /\ LET fp == Head(scan.files)
           found == scan.found \cup {fp}
       IN  IF sidecar[fp] # "none"
           THEN /\ scan' = ScanFileDone(scan.found)
                /\ UNCHANGED <<heap, monitored_files>>
           ELSE IF ~ScanIsNew(fp)
           THEN /\ scan' = ScanFileDone(found)
                /\ UNCHANGED <<heap, monitored_files>>
           ELSE IF exists[fp]
           THEN /\ heap' = Append(heap, NewState(fp))
                /\ monitored_files' = Append(monitored_files, [fp |-> fp, st |-> Len(heap) + 1])
                /\ scan' = ScanFileDone(found)
           ELSE \* os.path.getsize raises OSError in FileMonitorState.__init__ :
                \* `except Exception` ends the walk of this directory
                /\ scan' = ScanAborted(found)
                /\ UNCHANGED <<heap, monitored_files>>
    /\ UNCHANGED <<calls, now, fsVars, directories, view, tick, manual, jobs>>

\* the entries the scan keeps
ScanKeeps(e) == e.fp \in scan.found

\* `with self.lock:` remove what was not found; the scan returns
ScanRemove ==
    /\ scan.pc = "remove"
    /\ monitored_files' = SelectSeq(monitored_files, ScanKeeps)
    /\ scan' = IdleScan
    /\ UNCHANGED <<calls, now, fsVars, directories, view, heap, tick, manual, jobs>>

(* ---------------------------- job threads ------------------------------ *)
\* Thread(target=self._process_file, args=(filepath, state), daemon=True).start()
\* h is the heap after the caller's own write
StartThread(fp, st, h) ==
    /\ jobs' = Append(jobs, [fp |-> fp, st |-> st, pc |-> "run", err |-> NoError])
    /\ heap' = [h EXCEPT ![st].threads = @ + 1]

\* the thread of job j ends
ThreadEnds(j) == jobs' = SubSeq(jobs, 1, j - 1) \o SubSeq(jobs, j + 1, Len(jobs))

(* --------------- FileMonitor.check_stability_and_process --------------- *)
\* the tick goes on to the next entry of files_to_check
TickNext == [pc |-> IF Len(tick.todo) > 1 THEN "check" ELSE "idle", todo |-> Tail(tick.todo)]
TickCur == Head(tick.todo).st

\* `with self.lock: files_to_check = list(self.monitored_files.items())`
TickStart ==
    /\ tick.pc = "idle"
    /\ tick' = [pc |-> IF monitored_files # <<>> THEN "check" ELSE "idle",
                todo |-> monitored_files]
    /\ UNCHANGED <<now, fsVars, directories, view, heap, monitored_files, scan,
                   manual, jobs>>

\* mutant: the tick passes over every entry
TickSkips_All(st) == TRUE

\* does the tick pass over this entry?
TickSkips(st) == st.is_processing \/ st.is_completed

\* `if state.is_processing or state.is_completed: continue`
TickCheck ==
    /\ tick.pc = "check"
    /\ tick' = IF TickSkips(heap[TickCur]) THEN TickNext ELSE [tick EXCEPT !.pc = "examine"]
    /\ UNCHANGED <<calls, now, fsVars, directories, view, heap, monitored_files, scan,
                   manual, jobs>>

\* `size_changed = state.update_size()`; if the size did not change, either
\* `state.is_processing = True` (the file is stable) or the countdown is written
\* to the status
TickExamine ==
    /\ tick.pc = "examine"
    /\ LET r == update_size(heap[TickCur])
       IN  IF r[2]
           THEN /\ heap' = [heap EXCEPT ![TickCur] = r[1]]
                /\ tick' = [tick EXCEPT !.pc = "changed"]
           ELSE IF is_stable(r[1])
           THEN /\ heap' = [heap EXCEPT ![TickCur] = [r[1] EXCEPT !.is_processing = TRUE]]
                /\ tick' = [tick EXCEPT !.pc = "promote"]
           ELSE /\ heap' = [heap EXCEPT ![TickCur] = [r[1] EXCEPT !.status = Waiting]]
                /\ tick' = TickNext
    /\ UNCHANGED <<calls, now, fsVars, directories, view, monitored_files, scan, manual, jobs>>

\* the size changed: the countdown is written to the status; `continue`
TickChanged ==
    /\ tick.pc = "changed"
    /\ heap' = [heap EXCEPT ![TickCur].status = Waiting]
    /\ tick' = TickNext
    /\ UNCHANGED <<calls, now, fsVars, directories, view, monitored_files, scan, manual, jobs>>

\* `state.status = "Processing"` and the job thread is started
TickPromote ==
    /\ tick.pc = "promote"
    /\ StartThread(Head(tick.todo).fp, TickCur,
                   [heap EXCEPT ![TickCur].status = "Processing"])
    /\ tick' = TickNext
    /\ UNCHANGED <<calls, now, fsVars, directories, view, monitored_files, scan, manual>>

(* --------------------- FileMonitor.process_file_now -------------------- *)
\* mutant: the check of is_completed is missing
ManualRefuses_OnlyProcessing(st) == st.is_processing

\* mutant: process_file_now waits for stability like a tick
ManualRefuses_Unstable(st) ==
    st.is_processing \/ st.is_completed \/ (now - st.last_size_change) < STABILITY_DURATION

\* does process_file_now turn this entry down?
ManualRefuses(st) == st.is_processing \/ st.is_completed

\* the `with self.lock:` block with its three early returns, then
\* `state.is_processing = True`
ManualCheck(fp) ==
    /\ manual.pc = "idle"
    /\ IF fp \notin Keys(monitored_files)
       THEN manual' = IdleManual                  \* return False
       ELSE IF ManualRefuses(heap[StateOf(monitored_files, fp)])
       THEN manual' = IdleManual                  \* return False
       ELSE manual' = [pc |-> "flag", fp |-> fp, st |-> StateOf(monitored_files, fp)]
    /\ UNCHANGED <<now, fsVars, directories, view, heap, monitored_files, scan,
                   tick, jobs>>

\* `state.is_processing = True`
ManualFlag ==
    /\ manual.pc = "flag"
    /\ heap' = [heap EXCEPT ![manual.st].is_processing = TRUE]
    /\ manual' = [manual EXCEPT !.pc = "promote"]
    /\ UNCHANGED <<calls, now, fsVars, directories, view, monitored_files, scan, tick, jobs>>

\* `state.status = "Processing (forced)"`, the job thread is started, `return True`
ManualPromote ==
    /\ manual.pc = "promote"
    /\ StartThread(manual.fp, manual.st,
                   [heap EXCEPT ![manual.st].status = "Processing (forced)"])
    /\ manual' = IdleManual
    /\ UNCHANGED <<calls, now, fsVars, directories, view, monitored_files, scan, tick>>

(* -------------------- FileMonitor.get_monitored_files ------------------ *)
\* `with self.lock:` and the list comprehension begins
ViewStart ==
    /\ view.pc = "idle"
    /\ view' = [pc |-> IF monitored_files # <<>> THEN "status" ELSE "idle",
                todo |-> monitored_files, status |-> "", out |-> <<>>]
    /\ UNCHANGED <<now, fsVars, directories, heap, monitored_files, scan, tick,
                   manual, jobs>>

\* `state.status` of the next entry is read
ViewStatus ==
    /\ view.pc = "status"
    /\ view' = [view EXCEPT !.status = heap[Head(view.todo).st].status, !.pc = "error"]
    /\ UNCHANGED <<calls, now, fsVars, directories, heap, monitored_files, scan,
                   tick, manual, jobs>>

\* `state.error` is read and the tuple (fp, status, error) is added to the list;
\* after the last entry the list is returned
ViewError ==
    /\ view.pc = "error"
    /\ view' = [pc |-> IF Len(view.todo) > 1 THEN "status" ELSE "idle",
                todo |-> Tail(view.todo), status |-> "",
                out |-> Append(view.out, [fp |-> Head(view.todo).fp,
                                          status |-> view.status,
                                          error |-> heap[Head(view.todo).st].error])]
    /\ UNCHANGED <<calls, now, fsVars, directories, heap, monitored_files, scan,
                   tick, manual, jobs>>

(* ---------------------- FileMonitor._process_file ---------------------- *)
JobFrame == UNCHANGED <<calls, now, directories, view, monitored_files, tick, manual>>
NoFsChange == UNCHANGED <<fsVars, scan>>

\* a job writes filepath + '.txt'
WriteSidecar(fp, what) ==
    /\ sidecar' = [sidecar EXCEPT ![fp] = what]
    /\ scan' = Unclean
    /\ UNCHANGED <<exists, fsize, fsEvents>>

\* str(e) of what the `try:` block raises: `if not metadata: raise Exception(...)`,
\* an exception of xrmreader.read_metadata, one of open(txt_path, 'w')
Failures == {"str(e)"}

\* The job up to its first write: read_metadata and the report written to the
\* sidecar; or an exception and the error file written; or an exception and
\* open() raising again in the `except` block, which ends the thread.
JobRun(j) ==
    /\ jobs[j].pc = "run"
    /\ \/ /\ WriteSidecar(jobs[j].fp, ReportHeader)
          /\ jobs' = [jobs EXCEPT ![j].pc = "completed"]
       \/ /\ WriteSidecar(jobs[j].fp, ErrorHeader)
          /\ \E e \in Failures : jobs' = [jobs EXCEPT ![j].pc = "error", ![j].err = e]
       \/ /\ ThreadEnds(j)
          /\ NoFsChange
    /\ UNCHANGED heap /\ JobFrame

\* `state.status = "Completed"`
JobCompleted(j) ==
    /\ jobs[j].pc = "completed"
    /\ heap' = [heap EXCEPT ![jobs[j].st].status = "Completed"]
    /\ jobs' = [jobs EXCEPT ![j].pc = "completed2"]
    /\ NoFsChange /\ JobFrame

\* mutant: is_processing is cleared before is_completed is set
JobCompleted2_ClearsFirst(j) ==
    /\ jobs[j].pc = "completed2"
    /\ heap' = [heap EXCEPT ![jobs[j].st].is_processing = FALSE]
    /\ jobs' = [jobs EXCEPT ![j].pc = "completed3"]
    /\ NoFsChange /\ JobFrame

\* `state.is_completed = True`
JobCompleted2(j) ==
    /\ jobs[j].pc = "completed2"
    /\ heap' = [heap EXCEPT ![jobs[j].st].is_completed = TRUE]
    /\ jobs' = [jobs EXCEPT ![j].pc = "completed3"]
    /\ NoFsChange /\ JobFrame

\* `state.is_processing = False`
JobCompleted3(j) ==
    /\ jobs[j].pc = "completed3"
    /\ heap' = [heap EXCEPT ![jobs[j].st].is_processing = FALSE]
    /\ ThreadEnds(j)
    /\ NoFsChange /\ JobFrame

\* `state.status = "Error"`
JobError(j) ==
    /\ jobs[j].pc = "error"
    /\ heap' = [heap EXCEPT ![jobs[j].st].status = "Error"]
    /\ jobs' = [jobs EXCEPT ![j].pc = "error2"]
    /\ NoFsChange /\ JobFrame

\* `state.error = str(e)`
JobError2(j) ==
    /\ jobs[j].pc = "error2"
    /\ heap' = [heap EXCEPT ![jobs[j].st].error = jobs[j].err]
    /\ jobs' = [jobs EXCEPT ![j].pc = "error3"]
    /\ NoFsChange /\ JobFrame

\* `state.is_completed = True`
JobError3(j) ==
    /\ jobs[j].pc = "error3"
    /\ heap' = [heap EXCEPT ![jobs[j].st].is_completed = TRUE]
    /\ jobs' = [jobs EXCEPT ![j].pc = "error4"]
    /\ NoFsChange /\ JobFrame

\* `state.is_processing = False`
JobError4(j) ==
    /\ jobs[j].pc = "error4"
    /\ heap' = [heap EXCEPT ![jobs[j].st].is_processing = FALSE]
    /\ ThreadEnds(j)
    /\ NoFsChange /\ JobFrame

(* ------------------------- the specifications -------------------------- *)
\* a call of the FileMonitor API begins; process_file_now is given a row of the
\* table, tracked or no longer
Counted(limit) == calls < limit /\ calls' = calls + 1

\* Spec: the API under concurrent callers, for one scan file being written
Init == InitWith(<<"d/dA", "missing", "d/dB">>, Active)

Next ==
    \/ AdvanceClock
    \/ \E p \in Active : FsWrite(p)
    \/ \E p \in Active : FsDelete(p)
    \/ \E p \in Active : FsCreate(p)
    \/ \E j \in DOMAIN jobs : JobRun(j)
    \/ \E j \in DOMAIN jobs : JobCompleted(j)
    \/ \E j \in DOMAIN jobs : JobCompleted2(j)
    \/ \E j \in DOMAIN jobs : JobCompleted3(j)
    \/ \E j \in DOMAIN jobs : JobError(j)
    \/ \E j \in DOMAIN jobs : JobError2(j)
    \/ \E j \in DOMAIN jobs : JobError3(j)
    \/ \E j \in DOMAIN jobs : JobError4(j)
    \/ ScanWalk \/ ScanFile \/ ScanRemove
    \/ TickCheck \/ TickExamine \/ TickChanged \/ TickPromote
    \/ ManualFlag \/ ManualPromote
    \/ Counted(MaxCalls) /\ ScanStart
    \/ Counted(MaxCalls) /\ TickStart
    \/ \E fp \in Paths : Counted(MaxCalls) /\ ManualCheck(fp)

Spec == Init /\ [][Next]_vars

\* SpecQt: the application's schedule.  Its callbacks run on one thread, one at
\* a time, and the user may empty the list of directories.
MainIdle == scan.pc = "idle" /\ tick.pc = "idle" /\ manual.pc = "idle" /\ view.pc = "idle"

InitQt == \E ds \in DirLists : InitWith(ds, Active)

NextQt ==
    \/ AdvanceClock
    \/ \E p \in Active : FsWrite(p)
    \/ \E p \in Active : FsDelete(p)
    \/ \E p \in Active : FsCreate(p)
    \/ \E j \in DOMAIN jobs : JobRun(j)
    \/ \E j \in DOMAIN jobs : JobCompleted(j)
    \/ \E j \in DOMAIN jobs : JobCompleted2(j)
    \/ \E j \in DOMAIN jobs : JobCompleted3(j)
    \/ \E j \in DOMAIN jobs : JobError(j)
    \/ \E j \in DOMAIN jobs : JobError2(j)
    \/ \E j \in DOMAIN jobs : JobError3(j)
    \/ \E j \in DOMAIN jobs : JobError4(j)
    \/ ScanWalk \/ ScanFile \/ ScanRemove
    \/ TickCheck \/ TickExamine \/ TickChanged \/ TickPromote
    \/ ManualFlag \/ ManualPromote
    \/ MainIdle /\ Counted(MaxQtCalls) /\ ScanStart
    \/ MainIdle /\ Counted(MaxQtCalls) /\ TickStart
    \/ \E fp \in Paths : MainIdle /\ Counted(MaxQtCalls) /\ ManualCheck(fp)
    \/ MainIdle /\ Counted(MaxQtCalls) /\ RemoveDirectories

SpecQt == InitQt /\ [][NextQt]_vars

\* SpecView: the application's schedule with the table of the main window, which
\* is filled from get_monitored_files in one more callback of the event loop
NextView ==
    \/ AdvanceClock
    \/ \E p \in Active : FsWrite(p)
    \/ \E p \in Active : FsDelete(p)
    \/ \E p \in Active : FsCreate(p)
    \/ \E j \in DOMAIN jobs : JobRun(j)
    \/ \E j \in DOMAIN jobs : JobCompleted(j)
    \/ \E j \in DOMAIN jobs : JobCompleted2(j)
    \/ \E j \in DOMAIN jobs : JobCompleted3(j)
    \/ \E j \in DOMAIN jobs : JobError(j)
    \/ \E j \in DOMAIN jobs : JobError2(j)
    \/ \E j \in DOMAIN jobs : JobError3(j)
    \/ \E j \in DOMAIN jobs : JobError4(j)
    \/ ScanWalk \/ ScanFile \/ ScanRemove
    \/ TickCheck \/ TickExamine \/ TickChanged \/ TickPromote
    \/ ManualFlag \/ ManualPromote
    \/ ViewStatus \/ ViewError
    \/ MainIdle /\ Counted(MaxCalls) /\ ScanStart
    \/ MainIdle /\ Counted(MaxCalls) /\ TickStart
    \/ \E fp \in Paths : MainIdle /\ Counted(MaxCalls) /\ ManualCheck(fp)
    \/ MainIdle /\ Counted(MaxCalls) /\ ViewStart

SpecView == Init /\ [][NextView]_vars

\* SpecLive: a scan file that is complete on disk and left alone, scanned
\* and ticked again and again.  A QTimer fires every STABILITY_CHECK_INTERVAL, the
\* clock moves on, and a started call or thread is scheduled until it ends; when
\* a scan is started, and whether one ends, is left open.
NextLive ==
    \/ AdvanceClock
    \/ \E j \in DOMAIN jobs : JobRun(j)
    \/ \E j \in DOMAIN jobs : JobCompleted(j)
    \/ \E j \in DOMAIN jobs : JobCompleted2(j)
    \/ \E j \in DOMAIN jobs : JobCompleted3(j)
    \/ \E j \in DOMAIN jobs : JobError(j)
    \/ \E j \in DOMAIN jobs : JobError2(j)
    \/ \E j \in DOMAIN jobs : JobError3(j)
    \/ \E j \in DOMAIN jobs : JobError4(j)
    \/ ScanWalk \/ ScanFile \/ ScanRemove
    \/ TickCheck \/ TickExamine \/ TickPromote
    \/ ScanStart /\ UNCHANGED calls
    \/ TickStart /\ UNCHANGED calls

Fairness ==
    /\ WF_vars(AdvanceClock)
    /\ WF_vars(TickStart /\ UNCHANGED calls)
    /\ WF_vars(TickCheck) /\ WF_vars(TickExamine) /\ WF_vars(TickPromote)
    /\ WF_vars(\E j \in DOMAIN jobs : JobRun(j))
    /\ WF_vars(\E j \in DOMAIN jobs : JobCompleted(j))
    /\ WF_vars(\E j \in DOMAIN jobs : JobCompleted2(j))
    /\ WF_vars(\E j \in DOMAIN jobs : JobCompleted3(j))
    /\ WF_vars(\E j \in DOMAIN jobs : JobError(j))
    /\ WF_vars(\E j \in DOMAIN jobs : JobError2(j))
    /\ WF_vars(\E j \in DOMAIN jobs : JobError3(j))
    /\ WF_vars(\E j \in DOMAIN jobs : JobError4(j))

SpecLive == Init /\ [][NextLive]_vars /\ Fairness

\* SpecScan: scans of a tree that holds a finished scan file (d/dB/b.txrm) while
\* another one (d/dA/a.txrm) comes and goes
InitScan == \E ds \in DirLists : InitWith(ds, Paths \ Active)

NextScan ==
    \/ AdvanceClock
    \/ \E p \in Active : FsWrite(p)
    \/ \E p \in Active : FsDelete(p)
    \/ \E p \in Active : FsCreate(p)
    \/ ScanWalk \/ ScanFile \/ ScanRemove
    \/ Counted(MaxCalls) /\ ScanStart

SpecScan == InitScan /\ [][NextScan]_vars

(* ============================== the claims ============================= *)
Entries == Range(monitored_files)
Pending(st) == ~st.is_processing /\ ~st.is_completed
NewJob(fp, st) == [fp |-> fp, st |-> st, pc |-> "run", err |-> NoError]

\* the files a scan is to find: .txrm files under a configured directory that
\* is on disk, with no sidecar
Eligible ==
    { p \in Paths :
        /\ exists[p] /\ sidecar[p] = "none"
        /\ \E i \in DOMAIN directories :
             /\ IsDir(directories[i])
             /\ \E k \in DOMAIN WalkRoots(directories[i]) :
                  p \in Range(DirFiles(WalkRoots(directories[i])[k])) }

\* C1: a tick and a process_file_now call that run concurrently on the same
\* pending, stable entry start one job thread between them: no entry ever has
\* two job threads started for it.
C1_OneJobPerEntry == \A o \in DOMAIN heap : heap[o].threads <= 1

\* C2: in every reachable state at most one extraction job is running for any
\* given path, also when the file disappears and reappears between scans.
C2_OneRunningJobPerPath ==
    \A p \in Paths : Cardinality({ j \in DOMAIN jobs : jobs[j].fp = p }) <= 1

\* C3: an entry's status never moves from Processing back to Pending, nor from
\* Completed or Error back to Pending or Processing.
C3_StatusNeverMovesBack ==
    [][ \A o \in DOMAIN heap :
          /\ heap[o].status \in ProcessingStatus => heap'[o].status \notin PendingStatus
          /\ heap[o].status \in TerminalStatus =>
                heap'[o].status \notin PendingStatus \cup ProcessingStatus ]_vars

\* C4: a tick that finds a pending entry's size unchanged promotes it if and only
\* if STABILITY_DURATION has elapsed since last_size_change: not at T +
\* STABILITY_DURATION - 1 (the status stays Pending, no job is started), and at
\* T + STABILITY_DURATION or later it does (is_processing is set, then the status
\* becomes Processing and one job thread is started for the entry).
C4_StabilityThreshold ==
    [][ /\ ( /\ TickExamine
             /\ Pending(heap[TickCur])
             /\ exists[heap[TickCur].filepath]
             /\ fsize[heap[TickCur].filepath] = heap[TickCur].size )
          => LET T == heap[TickCur].last_size_change
             IN  /\ now < T + STABILITY_DURATION =>
                       /\ tick'.pc # "promote"
                       /\ heap'[TickCur].status \in PendingStatus
                       /\ ~heap'[TickCur].is_processing
                       /\ jobs' = jobs
                 /\ now >= T + STABILITY_DURATION =>
                       /\ tick'.pc = "promote"
                       /\ heap'[TickCur].is_processing
        /\ TickPromote
          => /\ heap'[TickCur].status = "Processing"
             /\ jobs' = Append(jobs, NewJob(heap[TickCur].filepath, TickCur))
             /\ heap'[TickCur].threads = heap[TickCur].threads + 1 ]_vars

\* C4 witness: a tick has promoted an entry exactly STABILITY_DURATION after its
\* last size change
C4_PromotedAtThreshold ==
    /\ tick.pc = "promote"
    /\ heap[TickCur].threads = 0
    /\ now = heap[TickCur].last_size_change + STABILITY_DURATION

\* C5: a tick that sees a pending entry's size differ from the stored size stores
\* the new size, sets last_size_change to the time of the tick and does not
\* promote the entry; last_size_change moves at no other step, and a tick
\* promotes only when STABILITY_DURATION has elapsed since last_size_change.
C5_SizeChangeResetsClock ==
    [][ /\ ( /\ TickExamine
             /\ exists[heap[TickCur].filepath]
             /\ fsize[heap[TickCur].filepath] # heap[TickCur].size )
          => /\ heap'[TickCur].size = fsize[heap[TickCur].filepath]
             /\ heap'[TickCur].last_size_change = now
             /\ tick'.pc = "changed"
             /\ heap'[TickCur].is_processing = heap[TickCur].is_processing
             /\ jobs' = jobs
        /\ TickChanged
          => /\ heap'[TickCur].status \in PendingStatus
             /\ heap'[TickCur].is_processing = heap[TickCur].is_processing
             /\ jobs' = jobs
        /\ (TickExamine /\ tick'.pc = "promote")
          => now - heap'[TickCur].last_size_change >= STABILITY_DURATION
        /\ \A o \in DOMAIN heap :
             heap'[o].last_size_change # heap[o].last_size_change
               => /\ TickExamine /\ o = TickCur
                  /\ heap'[o].size # heap[o].size
                  /\ heap'[o].last_size_change = now ]_vars

\* C5 witness: a tick has just seen the size change, at a time when the file
\* could otherwise have been stable, and has reset the clock
C5_ClockReset ==
    /\ tick.pc = "changed"
    /\ now >= STABILITY_DURATION
    /\ heap[TickCur].last_size_change = now
    /\ heap[TickCur].size = fsize[heap[TickCur].filepath]

\* C6: once a job has written the sidecar of a path, and while that sidecar
\* exists, no further job is started for that path.
C6_NoJobWhileSidecar ==
    [][ \A o \in DOMAIN heap :
          heap'[o].threads > heap[o].threads => sidecar[heap[o].filepath] = "none" ]_vars

\* C7: when scan_directories returns and nothing on disk changed meanwhile, the
\* tracked paths are exactly the eligible files, for every configured directory
\* list, the empty one included.
C7_ScanReconciles ==
    [][ ((ScanRemove /\ scan.clean) \/ (ScanStart /\ directories = <<>>))
          => Keys(monitored_files') = Eligible' ]_vars

\* C8: a scan leaves every entry that is tracked and found again in place, the
\* same object with the same size, last_size_change, status and error; and the
\* store holds one entry per path.
C8_RescanKeepsEntries ==
    /\ [][ (ScanStart \/ ScanWalk \/ ScanFile \/ ScanRemove)
             => \A e \in Entries :
                  (ScanRemove => e.fp \in scan.found)
                    => /\ e \in Range(monitored_files')
                       /\ heap'[e.st] = heap[e.st] ]_vars
    /\ [](Cardinality(Keys(monitored_files)) = Len(monitored_files))

\* C8 witness: a scan comes to a file that is tracked already
C8_RescanOfTracked ==
    /\ scan.pc = "file"
    /\ Head(scan.files) \in Keys(monitored_files)
    /\ sidecar[Head(scan.files)] = "none"

\* C9: process_file_now returns False (the call ends in its locked block) when
\* the path is not tracked, when its entry is processing (by flag or by status)
\* and when it is completed or in error; nothing is changed and no job is started.
C9_ProcessNowRefuses ==
    [][ \A fp \in Paths :
          ( /\ ManualCheck(fp)
            /\ \/ fp \notin Keys(monitored_files)
               \/ heap[StateOf(monitored_files, fp)].is_processing
               \/ heap[StateOf(monitored_files, fp)].is_completed
               \/ heap[StateOf(monitored_files, fp)].status
                     \in ProcessingStatus \cup TerminalStatus )
          => /\ manual' = IdleManual
             /\ heap' = heap
             /\ monitored_files' = monitored_files
             /\ jobs' = jobs ]_vars

\* C9 witness: process_file_now can be called while one path is not tracked and
\* the other one's entry is terminal
C9_RefusalCases ==
    /\ manual.pc = "idle"
    /\ calls < MaxCalls
    /\ \E fp \in Paths : fp \notin Keys(monitored_files)
    /\ \E e \in Entries : heap[e.st].is_completed /\ ~heap[e.st].is_processing

\* C10: process_file_now on a tracked pending entry goes on whatever the time
\* since last_size_change: it sets is_processing, then the status to Processing
\* and starts exactly one job thread, the same job a tick starts, and returns.
C10_ProcessNowPromotes ==
    [][ /\ \A fp \in Paths :
             ( /\ ManualCheck(fp)
               /\ fp \in Keys(monitored_files)
               /\ Pending(heap[StateOf(monitored_files, fp)]) )
             => manual' = [pc |-> "flag", fp |-> fp, st |-> StateOf(monitored_files, fp)]
        /\ ManualFlag => heap'[manual.st].is_processing
        /\ ManualPromote
             => /\ heap'[manual.st].status \in ProcessingStatus
                /\ jobs' = Append(jobs, NewJob(manual.fp, manual.st))
                /\ heap'[manual.st].threads = heap[manual.st].threads + 1
                /\ manual' = IdleManual
        /\ TickPromote
             => jobs' = Append(jobs, NewJob(Head(tick.todo).fp, Head(tick.todo).st)) ]_vars

\* C10 witness: a job started by process_file_now is running for an entry whose
\* size changed less than STABILITY_DURATION ago
C10_ForcedBeforeStable ==
    \E j \in DOMAIN jobs :
        /\ heap[jobs[j].st].status = "Processing (forced)"
        /\ heap[jobs[j].st].threads = 1
        /\ now - heap[jobs[j].st].last_size_change < STABILITY_DURATION

\* C11: every job thread that ends leaves its entry terminal: the status is
\* Completed or Error, is_completed is set and is_processing is cleared, whatever
\* the outcome of the extraction and of the writes of the sidecar.
C11_JobEndsTerminal ==
    [][ \A j \in DOMAIN jobs :
          ( /\ JobRun(j) \/ JobCompleted3(j) \/ JobError4(j)
            /\ Len(jobs') < Len(jobs) )
          => /\ heap'[jobs[j].st].status \in TerminalStatus
             /\ heap'[jobs[j].st].is_completed
             /\ ~heap'[jobs[j].st].is_processing ]_vars

\* C12: a job whose `try:` block raises (read_metadata raises, or returns
\* nothing) writes the sidecar with the first line ERROR PROCESSING METADATA and
\* ends with the status Error and an error description on its entry; the
\* failure stays in the job thread: the tick and process_file_now see none of it.
C12_ExtractionFailureReported ==
    [][ \A j \in DOMAIN jobs :
          /\ (JobRun(j) /\ jobs' # [jobs EXCEPT ![j].pc = "completed"])
               => /\ sidecar'[jobs[j].fp] = ErrorHeader
                  /\ Len(jobs') = Len(jobs)
                  /\ jobs'[j].pc = "error"
                  /\ jobs'[j].err # NoError
          /\ JobError4(j)
               => /\ heap'[jobs[j].st].status = "Error"
                  /\ heap'[jobs[j].st].error # NoError
                  /\ heap'[jobs[j].st].is_completed
          /\ (JobRun(j) \/ JobError(j) \/ JobError2(j) \/ JobError3(j) \/ JobError4(j))
               => UNCHANGED <<tick, manual, monitored_files>> ]_vars

\* the last instant the clock is read at
MaxTime == MaxPeriods * STABILITY_DURATION + 1

\* C13: for a scan file of constant size with no sidecar, once a scan has made
\* its entry and ticks keep running, with scans in between, the entry becomes
\* Processing and a job is started for it, not before STABILITY_DURATION has
\* passed since its last_size_change; and when the job has got the metadata and
\* written the sidecar, the status of the entry becomes Completed.
C13_StableFileCompletes ==
    /\ (\E e \in Entries :
            /\ Pending(heap[e.st])
            /\ heap[e.st].last_size_change + STABILITY_DURATION <= MaxTime)
         ~> (\E e \in Entries :
               /\ heap[e.st].status = "Processing"
               /\ heap[e.st].is_processing
               /\ \E j \in DOMAIN jobs : jobs[j] = NewJob(e.fp, e.st))
    /\ [](\A o \in DOMAIN heap :
             heap[o].threads > 0 =>
                now >= heap[o].last_size_change + STABILITY_DURATION)
    /\ (\E j \in DOMAIN jobs : jobs[j].pc = "completed")
         ~> (\E o \in DOMAIN heap :
               /\ heap[o].status = "Completed"
               /\ heap[o].is_completed /\ ~heap[o].is_processing
               /\ sidecar[heap[o].filepath] = ReportHeader)

\* C13 witness: the job of a stable file has ended, the sidecar is written and
\* the entry, still tracked, is Completed
C13_CompletedEntry ==
    \E e \in Entries :
        /\ heap[e.st].status = "Completed"
        /\ heap[e.st].threads = 1
        /\ ~heap[e.st].is_processing
        /\ sidecar[e.fp] = ReportHeader
        /\ jobs = <<>>

\* C14: when the size of an entry's file cannot be read in a tick (the file is
\* gone), the tick leaves the entry as it is: size, last_size_change and status
\* are unchanged, the entry is not promoted, no job is started and the entry
\* stays in the store.
C14_SizeReadFails ==
    [][ (TickExamine /\ ~exists[heap[TickCur].filepath])
          => /\ heap' = heap
             /\ tick'.pc # "promote"
             /\ jobs' = jobs
             /\ monitored_files' = monitored_files ]_vars

\* C15: a configured directory that is not on disk is passed over: the scan
\* still walks every root of every other configured directory, those listed
\* before it and those listed after it, and when it returns (nothing on disk
\* having changed meanwhile) the store holds exactly the eligible files of those
\* directories.
C15_MissingDirectorySkipped ==
    [][ /\ (ScanStart /\ directories # <<>>)
             => /\ \A i \in DOMAIN directories :
                     IsDir(directories[i]) =>
                        \A k \in DOMAIN WalkRoots(directories[i]) :
                           [d |-> i, root |-> WalkRoots(directories[i])[k]]
                              \in Range(scan'.roots)
                /\ \A r \in Range(scan'.roots) : IsDir(directories[r.d])
                /\ scan'.pc = IF scan'.roots = <<>> THEN "remove" ELSE "walk"
        /\ ( /\ ScanRemove /\ scan.clean
             /\ \E i \in DOMAIN directories : ~IsDir(directories[i]) )
             => Keys(monitored_files') = Eligible' ]_vars

\* C15 witness: a scan of a list with a missing directory in the middle has
\* found a file in the directory before it and one in the directory after it
C15_FoundAroundMissing ==
    /\ scan.pc = "remove" /\ scan.clean
    /\ Len(directories) = 3 /\ ~IsDir(directories[2])
    /\ scan.found = Paths

\* C20: a file that vanishes between its enumeration and the construction of
\* its entry does not touch the other files: when the scan returns, every entry
\* of a file that was left alone and is eligible is still in the store, the same
\* object with the same fields.
C20_OtherFilesKept ==
    [][ ScanRemove
          => \A e \in Entries :
               (e.fp \notin Active /\ e.fp \in Eligible)
                 => /\ e \in Range(monitored_files')
                    /\ heap'[e.st] = heap[e.st] ]_vars

\* C16: a list returned by get_monitored_files holds no torn tuple: the status
\* and the error of a tuple are a pair its entry held at one instant, so the
\* status is Error exactly when there is an error description.
C16_NoTornSnapshot ==
    \A t \in Range(view.out) : (t.status = "Error") <=> (t.error # NoError)

\* C17: in every reachable state an entry carries an error description only if
\* its status is Error: no entry that is pending, processing or completed has
\* one.
C17_ErrorOnlyIfErrored ==
    \A o \in DOMAIN heap : heap[o].error # NoError => heap[o].status = "Error"

\* C18: a tick changes nothing of an entry whose status is Processing,
\* Completed or Error, and starts no job for it, also when the entry came to
\* that status while the tick was running.
C18_TickLeavesBusyEntries ==
    [][ ( /\ TickCheck \/ TickExamine \/ TickChanged \/ TickPromote
          /\ heap[TickCur].status \in ProcessingStatus \cup TerminalStatus )
          => /\ heap'[TickCur] = heap[TickCur]
             /\ jobs' = jobs ]_vars

\* the steps made inside a `with self.lock:` block
UnderLock ==
    \/ \E ds \in DirLists \cup {<<>>} : set_directories(ds)
    \/ ScanFile \/ ScanRemove
    \/ TickStart
    \/ \E fp \in Paths : ManualCheck(fp)
    \/ ViewStart \/ ViewStatus \/ ViewError

\* C19: every write to the store, an entry added or removed, and every write
\* to a field of an entry, is made by a step that holds the lock.
C19_WritesUnderLock ==
    [][ (monitored_files' # monitored_files \/ heap' # heap) => UnderLock ]_vars

\* C21: the last_size_change of an entry never decreases.  It is the time of
\* construction for a new entry, it is set to the time of the tick by a tick
\* that sees the size differ from the stored one, and every other step (a tick
\* with the size unchanged, a scan, a promotion, a step of a job) leaves it as
\* it is.
C21_LastChangeMonotone ==
    [][ /\ \A o \in DOMAIN heap :
             /\ heap'[o].last_size_change >= heap[o].last_size_change
             /\ ( \/ ~TickExamine
                  \/ o # TickCur
                  \/ ~exists[heap[o].filepath]
                  \/ fsize[heap[o].filepath] = heap[o].size )
                  => heap'[o].last_size_change = heap[o].last_size_change
             /\ ( /\ TickExamine /\ o = TickCur
                  /\ exists[heap[o].filepath]
                  /\ fsize[heap[o].filepath] # heap[o].size )
                  => heap'[o].last_size_change = now
        /\ \A o \in DOMAIN heap' \ DOMAIN heap :
             /\ ScanFile
             /\ heap'[o].last_size_change = now ]_vars

\* C21 witness: an entry whose clock was set after the start has been promoted
\* and its job has ended
C21_LaterEntryCompleted ==
    \E e \in Entries :
        /\ heap[e.st].last_size_change > 0
        /\ heap[e.st].size = MaxSize
        /\ heap[e.st].status = "Completed"
        /\ heap[e.st].is_completed

\* C22: once is_processing is set on an entry, by a tick or by
\* process_file_now, is_processing or is_completed is true in every later state
\* of the entry, between the single writes of a finishing job as well; so a
\* tick that reads the flags then passes over the entry and process_file_now
\* turns it down.
C22_FlagsStayRaised ==
    [][ /\ \A o \in DOMAIN heap :
             (heap[o].is_processing \/ heap[o].is_completed)
               => (heap'[o].is_processing \/ heap'[o].is_completed)
        /\ (TickCheck /\ ~Pending(heap[TickCur])) => tick' = TickNext
        /\ \A fp \in Keys(monitored_files) :
             (ManualCheck(fp) /\ ~Pending(heap[StateOf(monitored_files, fp)]))
               => manual' = IdleManual ]_vars

\* C22 witness: a job is between its writes, on the success path with the
\* status written and is_completed not yet, or on the error path with
\* is_completed written and is_processing not yet cleared
C22_JobBetweenWrites ==
    \E j \in DOMAIN jobs :
        \/ /\ jobs[j].pc = "completed2"
           /\ heap[jobs[j].st].is_processing /\ ~heap[jobs[j].st].is_completed
        \/ /\ jobs[j].pc = "error4"
           /\ heap[jobs[j].st].is_processing /\ heap[jobs[j].st].is_completed

\* C23: a job is started only for an entry that is in the store at that
\* moment: a tick that runs beside a scan starts no job for an entry the scan
\* has removed.
C23_JobOnlyForTracked ==
    [][ \A o \in DOMAIN heap :
          heap'[o].threads > heap[o].threads
            => \E e \in Entries : e.st = o /\ e.fp = heap[o].filepath ]_vars

====
